---- MODULE Spec2Model ----
(***************************************************************************)
(* MessageReplaySubscriber.c: a queue subscriber that re-creates its flow  *)
(* when the router signals a replay.                                       *)
(*                                                                         *)
(* Two threads share the program's state.  The main thread runs main():    *)
(* it binds the flow, then polls flowErrorInfo once per SLEEP(1) until     *)
(* msgCount reaches 10.  The context thread, created by the API, invokes   *)
(* flowEventCallback and flowMessageReceiveCallback.  No lock protects     *)
(* flowErrorInfo or msgCount, so every statement that touches them is a    *)
(* step of its own and the two threads interleave between statements.      *)
(***************************************************************************)
EXTENDS Integers, Sequences, FiniteSets, TLC

(***************************************************************************)
(* Bounds of the model.                                                    *)
(***************************************************************************)
\* flow events the transport delivers in one run
MaxEvents == 2
\* messages the transport delivers after msgCount has reached the threshold
MaxExtraMsgs == 1
\* size of the errorStr buffer of solClient_errorInfo_t
ErrorStrSize == 2

(***************************************************************************)
(* Values of the program.                                                  *)
(***************************************************************************)
\* while ( msgCount < 10 )
MsgThreshold == 10

NULL == 0

SOLCLIENT_OK == "SOLCLIENT_OK"
SOLCLIENT_FAIL == "SOLCLIENT_FAIL"

\* flowErrorInfo.subCode != 0 : the zero sub code
SOLCLIENT_SUBCODE_OK == "SOLCLIENT_SUBCODE_OK"
SOLCLIENT_SUBCODE_REPLAY_STARTED == "SOLCLIENT_SUBCODE_REPLAY_STARTED"
SOLCLIENT_SUBCODE_REPLAY_START_TIME_NOT_AVAILABLE == "SOLCLIENT_SUBCODE_REPLAY_START_TIME_NOT_AVAILABLE"
\* any sub code the loop has no branch for
SOLCLIENT_SUBCODE_OTHER == "SOLCLIENT_SUBCODE_OTHER"

SubCodes == {SOLCLIENT_SUBCODE_OK, SOLCLIENT_SUBCODE_REPLAY_STARTED,
             SOLCLIENT_SUBCODE_REPLAY_START_TIME_NOT_AVAILABLE, SOLCLIENT_SUBCODE_OTHER}

ReplaySubCodes == {SOLCLIENT_SUBCODE_REPLAY_STARTED,
                   SOLCLIENT_SUBCODE_REPLAY_START_TIME_NOT_AVAILABLE}

\* the value of flowProps[propIndex], the replay start location
SOLCLIENT_FLOW_PROP_REPLAY_START_LOCATION_BEGINNING == "BEGINNING"
REPLAY_START_LOCATION_DATE == "DATE:1554331492"

ReplayStartLocations == {SOLCLIENT_FLOW_PROP_REPLAY_START_LOCATION_BEGINNING,
                         REPLAY_START_LOCATION_DATE}

FlowEvents == {"SOLCLIENT_FLOW_EVENT_UP_NOTICE", "SOLCLIENT_FLOW_EVENT_DOWN_ERROR"}

(***************************************************************************)
(* C strings.  A char buffer is a sequence of ErrorStrSize characters, 0  *)
(* being the terminator.                                                   *)
(***************************************************************************)
\* the buffer holding the string s (s holds no 0), cut to the buffer's size
Buf(s) == [i \in 1..ErrorStrSize |-> IF i <= Len(s) THEN s[i] ELSE 0]

\* strlen
RECURSIVE StrLenFrom(_, _)
StrLenFrom(buf, i) ==
    IF i > Len(buf) \/ buf[i] = 0 THEN 0 ELSE 1 + StrLenFrom(buf, i + 1)
StrLen(buf) == StrLenFrom(buf, 1)

\* strncpy(dst, src, n): the first n characters of src up to its terminator,
\* padded with 0 up to n; the rest of dst is kept
Strncpy(dst, src, n) ==
    [i \in 1..Len(dst) |->
        IF i <= n THEN (IF i <= StrLen(src) THEN src[i] ELSE 0) ELSE dst[i]]

\* buf[0] = '\0'
SetFirstNul(buf) == [buf EXCEPT ![1] = 0]

\* solClient_errorInfo_t
ErrorInfo(sub, resp, str) == [subCode |-> sub, responseCode |-> resp, errorStr |-> str]

\* the reason text the transport gives with a sub code
ReasonText(sub) ==
    CASE sub = SOLCLIENT_SUBCODE_OK -> Buf(<<>>)
      [] sub = SOLCLIENT_SUBCODE_REPLAY_STARTED -> Buf(<<1>>)
      [] sub = SOLCLIENT_SUBCODE_REPLAY_START_TIME_NOT_AVAILABLE -> Buf(<<2>>)
      [] OTHER -> Buf(<<1, 2>>)

\* the response code the transport gives with a sub code
ResponseCodeOf(sub) == IF sub = SOLCLIENT_SUBCODE_OK THEN 0 ELSE 503

VARIABLES
    pc,             \* main thread: the line of main() it is about to run
    ctx,            \* context thread: "idle" or the callback line it is about to run
    msgCount,       \* static int msgCount
    flowErrorInfo,  \* solClient_errorInfo_t flowErrorInfo of main()
    lastErrorInfo,  \* the record solClient_getLastErrorInfo() returns on the context thread
    flowProps,      \* flowProps[propIndex]: the replay start location
    flow_p,         \* solClient_opaqueFlow_pt flow_p of main()
    liveFlows,      \* the flow handles created and not yet destroyed
    nextFlow,       \* the handle the next successful createFlow returns
    rc,             \* int rc of main()
    exitCode,       \* the value main() returned, "none" while it runs
    apiLog,         \* the flow calls and loop decisions made so far, oldest first
    cbEvent,        \* the event the running flowEventCallback was called with
    cbFlow,         \* opaqueFlow_p of the running callback
    cbMsg,          \* the message the running flowMessageReceiveCallback was called with
    cbAcks,         \* the acknowledgments the running flowMessageReceiveCallback has sent
    nEvents,        \* flow events delivered so far
    unread          \* flowEventCallback wrote a replay sub code that the loop has not read yet

vars == <<pc, ctx, msgCount, flowErrorInfo, lastErrorInfo, flowProps, flow_p, liveFlows,
          nextFlow, rc, exitCode, apiLog, cbEvent, cbFlow, cbMsg, cbAcks, nEvents,
          unread>>

mainVars == <<pc, flowProps, flow_p, liveFlows, nextFlow, rc, exitCode, apiLog>>
ctxVars == <<ctx, msgCount, lastErrorInfo, cbEvent, cbFlow, cbMsg, cbAcks, nEvents>>

NoEvent == [flowEvent |-> "none", subCode |-> SOLCLIENT_SUBCODE_OK]
NoMsg == [idOk |-> FALSE, msgId |-> 0, redelivered |-> FALSE]

Init ==
    /\ pc = "l272"
    /\ ctx = "idle"
    /\ msgCount = 0
    /\ flowErrorInfo = ErrorInfo(SOLCLIENT_SUBCODE_OK, 0, Buf(<<>>))
    /\ lastErrorInfo = ErrorInfo(SOLCLIENT_SUBCODE_OK, 0, Buf(<<>>))
    /\ flowProps \in ReplayStartLocations
    /\ flow_p = NULL
    /\ liveFlows = {}
    /\ nextFlow = 1
    /\ rc = "unset"
    /\ exitCode = "none"
    /\ apiLog = <<>>
    /\ cbEvent = NoEvent
    /\ cbFlow = NULL
    /\ cbMsg = NoMsg
    /\ cbAcks = <<>>
    /\ nEvents = 0
    /\ unread = FALSE

(***************************************************************************)
(* The transport's flow calls, as main() uses them.                        *)
(***************************************************************************)
LogEntry(op, line, loc, flow, result) ==
    [op |-> op, line |-> line, loc |-> loc, flow |-> flow, rc |-> result]

\* rc = solClient_session_createFlow ( props, session_p, &flow_p, ... ) at `line`:
\* the bind succeeds and flow_p is a new handle, or it fails and no handle is made
CreateFlow(line, next, props) ==
    /\ pc = line
    /\ \E result \in {SOLCLIENT_OK, SOLCLIENT_FAIL} :
         /\ rc' = result
         /\ IF result = SOLCLIENT_OK
            THEN /\ flow_p' = nextFlow
                 /\ liveFlows' = liveFlows \cup {nextFlow}
                 /\ nextFlow' = nextFlow + 1
                 /\ apiLog' = Append(apiLog, LogEntry("create", line, props, nextFlow, result))
            ELSE /\ UNCHANGED <<flow_p, liveFlows, nextFlow>>
                 /\ apiLog' = Append(apiLog, LogEntry("create", line, props, NULL, result))
    /\ pc' = next
    /\ UNCHANGED <<flowProps, exitCode, flowErrorInfo, unread>>
    /\ UNCHANGED ctxVars

\* solClient_flow_destroy ( &flow_p ) at `line`: the handle is released and
\* flow_p is set to NULL
DestroyFlow(line, next) ==
    /\ pc = line
    /\ liveFlows' = liveFlows \ {flow_p}
    /\ flow_p' = NULL
    /\ apiLog' = Append(apiLog, LogEntry("destroy", line, flowProps, flow_p, SOLCLIENT_OK))
    /\ pc' = next
    /\ UNCHANGED <<flowProps, nextFlow, rc, exitCode, flowErrorInfo, unread>>
    /\ UNCHANGED ctxVars

\* CheckRc without the return: the failure is printed and the program goes on
CheckRc_NoReturn(line, next) ==
    /\ pc = line
    /\ pc' = next
    /\ UNCHANGED <<flowProps, flow_p, liveFlows, nextFlow, rc, exitCode, apiLog, flowErrorInfo, unread>>
    /\ UNCHANGED ctxVars

\* if (rc != SOLCLIENT_OK) { printf ...; return -1; }
CheckRc(line, next) ==
    /\ pc = line
    /\ IF rc # SOLCLIENT_OK
       THEN pc' = "done" /\ exitCode' = -1
       ELSE pc' = next /\ UNCHANGED exitCode
    /\ UNCHANGED <<flowProps, flow_p, liveFlows, nextFlow, rc, apiLog, flowErrorInfo, unread>>
    /\ UNCHANGED ctxVars

\* one of the three statements that reset flowErrorInfo
ResetField(line, next, info) ==
    /\ pc = line
    /\ flowErrorInfo' = info
    /\ pc' = next
    /\ UNCHANGED <<flowProps, flow_p, liveFlows, nextFlow, rc, exitCode, apiLog, unread>>
    /\ UNCHANGED ctxVars

(***************************************************************************)
(* main(), from the first bind on.                                         *)
(***************************************************************************)
Main_l272 == CreateFlow("l272", "l276", flowProps)

Main_l276 == CheckRc("l276", "l290")

\* the loop test written as msgCount <= 10
Main_l290_LessOrEqual ==
    /\ pc = "l290"
    /\ pc' = IF msgCount <= MsgThreshold THEN "l291" ELSE "l352"
    /\ UNCHANGED <<flowProps, flow_p, liveFlows, nextFlow, rc, exitCode, apiLog,
                   flowErrorInfo, unread>>
    /\ UNCHANGED ctxVars

\* while ( msgCount < 10 )
Main_l290 ==
    /\ pc = "l290"
    /\ pc' = IF msgCount < MsgThreshold THEN "l291" ELSE "l352"
    /\ UNCHANGED <<flowProps, flow_p, liveFlows, nextFlow, rc, exitCode, apiLog,
                   flowErrorInfo, unread>>
    /\ UNCHANGED ctxVars

\* if (flowErrorInfo.subCode != 0)
Main_l291 ==
    /\ pc = "l291"
    /\ pc' = IF flowErrorInfo.subCode # SOLCLIENT_SUBCODE_OK THEN "l292" ELSE "l342"
    /\ unread' = FALSE
    /\ UNCHANGED <<flowProps, flow_p, liveFlows, nextFlow, rc, exitCode, apiLog,
                   flowErrorInfo>>
    /\ UNCHANGED ctxVars

\* if (flowErrorInfo.subCode == SOLCLIENT_SUBCODE_REPLAY_STARTED)
Main_l292 ==
    /\ pc = "l292"
    /\ IF flowErrorInfo.subCode = SOLCLIENT_SUBCODE_REPLAY_STARTED
       THEN /\ pc' = "l294"
            /\ apiLog' = Append(apiLog, LogEntry("observe", "l292", flowProps, flow_p, SOLCLIENT_OK))
       ELSE /\ pc' = "l320"
            /\ UNCHANGED apiLog
    /\ unread' = FALSE
    /\ UNCHANGED <<flowProps, flow_p, liveFlows, nextFlow, rc, exitCode, flowErrorInfo>>
    /\ UNCHANGED ctxVars

Main_l294 == ResetField("l294", "l295", [flowErrorInfo EXCEPT !.responseCode = 0])
Main_l295 == ResetField("l295", "l296", [flowErrorInfo EXCEPT !.subCode = SOLCLIENT_SUBCODE_OK])
Main_l296 == ResetField("l296", "l302", [flowErrorInfo EXCEPT !.errorStr = SetFirstNul(@)])

\* line 302 left out: the flow is created again without being destroyed
Main_l302_NoDestroy ==
    /\ pc = "l302"
    /\ pc' = "l303"
    /\ UNCHANGED <<flowProps, flow_p, liveFlows, nextFlow, rc, exitCode, apiLog,
                   flowErrorInfo, unread>>
    /\ UNCHANGED ctxVars

\* solClient_flow_destroy(&flow_p);
Main_l302 == DestroyFlow("l302", "l303")

\* line 303 binding from the beginning of the log whatever flowProps says
Main_l303_FromBeginning ==
    CreateFlow("l303", "l306", SOLCLIENT_FLOW_PROP_REPLAY_START_LOCATION_BEGINNING)

\* rc = solClient_session_createFlow ( flowProps, ... );
Main_l303 == CreateFlow("l303", "l306", flowProps)
Main_l306 == CheckRc("l306", "l342")

\* line 320 as a plain else: every other sub code set takes the second branch
Main_l320_PlainElse ==
    /\ pc = "l320"
    /\ pc' = "l324"
    /\ IF flowErrorInfo.subCode = SOLCLIENT_SUBCODE_REPLAY_START_TIME_NOT_AVAILABLE
       THEN apiLog' = Append(apiLog, LogEntry("observe", "l320", flowProps, flow_p, SOLCLIENT_OK))
       ELSE UNCHANGED apiLog
    /\ unread' = FALSE
    /\ UNCHANGED <<flowProps, flow_p, liveFlows, nextFlow, rc, exitCode, flowErrorInfo>>
    /\ UNCHANGED ctxVars

\* else if (flowErrorInfo.subCode == SOLCLIENT_SUBCODE_REPLAY_START_TIME_NOT_AVAILABLE)
Main_l320 ==
    /\ pc = "l320"
    /\ IF flowErrorInfo.subCode = SOLCLIENT_SUBCODE_REPLAY_START_TIME_NOT_AVAILABLE
       THEN /\ pc' = "l324"
            /\ apiLog' = Append(apiLog, LogEntry("observe", "l320", flowProps, flow_p, SOLCLIENT_OK))
       ELSE /\ pc' = "l342"
            /\ UNCHANGED apiLog
    /\ unread' = FALSE
    /\ UNCHANGED <<flowProps, flow_p, liveFlows, nextFlow, rc, exitCode, flowErrorInfo>>
    /\ UNCHANGED ctxVars

Main_l324 == ResetField("l324", "l325", [flowErrorInfo EXCEPT !.responseCode = 0])
Main_l325 == ResetField("l325", "l326", [flowErrorInfo EXCEPT !.subCode = SOLCLIENT_SUBCODE_OK])
Main_l326 == ResetField("l326", "l328", [flowErrorInfo EXCEPT !.errorStr = SetFirstNul(@)])

\* line 328 left out: the replay start location is not overwritten
Main_l328_NoOverwrite ==
    /\ pc = "l328"
    /\ pc' = "l329"
    /\ UNCHANGED <<flowProps, flow_p, liveFlows, nextFlow, rc, exitCode, apiLog,
                   flowErrorInfo, unread>>
    /\ UNCHANGED ctxVars

\* flowProps[propIndex] = SOLCLIENT_FLOW_PROP_REPLAY_START_LOCATION_BEGINNING;
Main_l328 ==
    /\ pc = "l328"
    /\ flowProps' = SOLCLIENT_FLOW_PROP_REPLAY_START_LOCATION_BEGINNING
    /\ pc' = "l329"
    /\ UNCHANGED <<flow_p, liveFlows, nextFlow, rc, exitCode, apiLog, flowErrorInfo, unread>>
    /\ UNCHANGED ctxVars

Main_l329 == DestroyFlow("l329", "l330")
Main_l330 == CreateFlow("l330", "l333", flowProps)
Main_l333 == CheckRc("l333", "l342")

\* SLEEP ( 1 );
Main_l342 ==
    /\ pc = "l342"
    /\ pc' = "l290"
    /\ UNCHANGED <<flowProps, flow_p, liveFlows, nextFlow, rc, exitCode, apiLog,
                   flowErrorInfo, unread>>
    /\ UNCHANGED ctxVars

\* solClient_flow_destroy ( &flow_p );
Main_l352 == DestroyFlow("l352", "l355")

\* solClient_session_disconnect; solClient_cleanup; return 0;
Main_l355 ==
    /\ pc = "l355"
    /\ pc' = "done"
    /\ exitCode' = 0
    /\ UNCHANGED <<flowProps, flow_p, liveFlows, nextFlow, rc, apiLog, flowErrorInfo, unread>>
    /\ UNCHANGED ctxVars

(***************************************************************************)
(* The context thread.  It runs one callback at a time, for a flow that    *)
(* is bound, and stops with the process.                                   *)
(***************************************************************************)
\* the message ids solClient_msg_getMsgId can give; NoMsgId stands for a
\* message it fails on
MsgIds == 1..2
NoMsgId == 0

\* The transport calls flowEventCallback.  For a down-with-error event it has
\* set the thread's last error to the event's; for any other event the last
\* error is what it was.  Lines 70-71 take the two pointers.
DeliverFlowEventUpTo(max) ==
    /\ ctx = "idle"
    /\ pc # "done"
    /\ nEvents < max
    /\ \E h \in liveFlows, ev \in FlowEvents, sub \in SubCodes \ {SOLCLIENT_SUBCODE_OK} :
         /\ cbFlow' = h
         /\ IF ev = "SOLCLIENT_FLOW_EVENT_DOWN_ERROR"
            THEN lastErrorInfo' = ErrorInfo(sub, ResponseCodeOf(sub), ReasonText(sub))
            ELSE /\ sub = SOLCLIENT_SUBCODE_OTHER
                 /\ UNCHANGED lastErrorInfo
         /\ cbEvent' = [flowEvent |-> ev, subCode |-> lastErrorInfo'.subCode]
    /\ nEvents' = nEvents + 1
    /\ ctx' = "e72"
    /\ UNCHANGED <<msgCount, cbMsg, cbAcks, flowErrorInfo, unread>>
    /\ UNCHANGED mainVars

DeliverFlowEvent == DeliverFlowEventUpTo(MaxEvents)

\* flowErrorInfo_p->responseCode = errorInfo_p->responseCode;
Ctx_e72 ==
    /\ ctx = "e72"
    /\ pc # "done"
    /\ flowErrorInfo' = [flowErrorInfo EXCEPT !.responseCode = lastErrorInfo.responseCode]
    /\ ctx' = "e73"
    /\ UNCHANGED <<msgCount, lastErrorInfo, cbEvent, cbFlow, cbMsg, cbAcks, nEvents, unread>>
    /\ UNCHANGED mainVars

\* flowErrorInfo_p->subCode = errorInfo_p->subCode;
Ctx_e73 ==
    /\ ctx = "e73"
    /\ pc # "done"
    /\ flowErrorInfo' = [flowErrorInfo EXCEPT !.subCode = lastErrorInfo.subCode]
    /\ unread' = (lastErrorInfo.subCode \in ReplaySubCodes)
    /\ ctx' = "e74"
    /\ UNCHANGED <<msgCount, lastErrorInfo, cbEvent, cbFlow, cbMsg, cbAcks, nEvents>>
    /\ UNCHANGED mainVars

\* the callback destroying the flow itself instead of leaving it to the loop
Ctx_e74_DestroysFlow ==
    /\ ctx = "e74"
    /\ pc # "done"
    /\ liveFlows' = liveFlows \ {cbFlow}
    /\ ctx' = "idle"
    /\ cbEvent' = NoEvent
    /\ cbFlow' = NULL
    /\ UNCHANGED <<msgCount, lastErrorInfo, cbMsg, cbAcks, nEvents, flowErrorInfo, unread>>
    /\ UNCHANGED <<pc, flowProps, flow_p, nextFlow, rc, exitCode, apiLog>>

\* strncpy(errorInfo_p->errorStr, flowErrorInfo_p->errorStr, sizeof(flowErrorInfo_p->errorStr));
\* the destination is the transport's record, the source is flowErrorInfo; then printf, return
Ctx_e74 ==
    /\ ctx = "e74"
    /\ pc # "done"
    /\ lastErrorInfo' = [lastErrorInfo EXCEPT
                           !.errorStr = Strncpy(@, flowErrorInfo.errorStr, ErrorStrSize)]
    /\ ctx' = "idle"
    /\ cbEvent' = NoEvent
    /\ cbFlow' = NULL
    /\ UNCHANGED <<msgCount, cbMsg, cbAcks, nEvents, flowErrorInfo, unread>>
    /\ UNCHANGED mainVars

\* The transport calls flowMessageReceiveCallback with a message of the flow.
\* Lines 92-94 print it.
DeliverMessage ==
    /\ ctx = "idle"
    /\ pc # "done"
    /\ msgCount < MsgThreshold + MaxExtraMsgs
    /\ \E h \in liveFlows, id \in MsgIds \cup {NoMsgId}, re \in BOOLEAN :
         /\ cbFlow' = h
         /\ cbMsg' = [idOk |-> id # NoMsgId, msgId |-> id, redelivered |-> re]
    /\ ctx' = "m95"
    /\ UNCHANGED <<msgCount, lastErrorInfo, cbEvent, cbAcks, nEvents, flowErrorInfo, unread>>
    /\ UNCHANGED mainVars

\* msgCount++ made only for a message that is not a redelivered one
Ctx_m95_SkipsRedelivered ==
    /\ ctx = "m95"
    /\ pc # "done"
    /\ msgCount' = IF cbMsg.redelivered THEN msgCount ELSE msgCount + 1
    /\ ctx' = "m98"
    /\ UNCHANGED <<lastErrorInfo, cbEvent, cbFlow, cbMsg, cbAcks, nEvents, flowErrorInfo, unread>>
    /\ UNCHANGED mainVars

\* msgCount++;
Ctx_m95 ==
    /\ ctx = "m95"
    /\ pc # "done"
    /\ msgCount' = msgCount + 1
    /\ ctx' = "m98"
    /\ UNCHANGED <<lastErrorInfo, cbEvent, cbFlow, cbMsg, cbAcks, nEvents, flowErrorInfo, unread>>
    /\ UNCHANGED mainVars

\* the result of solClient_msg_getMsgId ignored: the acknowledgment is always sent
Ctx_m98_AlwaysAcks ==
    /\ ctx = "m98"
    /\ pc # "done"
    /\ ctx' = "m100"
    /\ UNCHANGED <<msgCount, lastErrorInfo, cbEvent, cbFlow, cbMsg, cbAcks, nEvents,
                   flowErrorInfo, unread>>
    /\ UNCHANGED mainVars

\* if ( solClient_msg_getMsgId ( msg_p, &msgId ) == SOLCLIENT_OK )
Ctx_m98 ==
    /\ ctx = "m98"
    /\ pc # "done"
    /\ ctx' = IF cbMsg.idOk THEN "m100" ELSE "m103"
    /\ UNCHANGED <<msgCount, lastErrorInfo, cbEvent, cbFlow, cbMsg, cbAcks, nEvents,
                   flowErrorInfo, unread>>
    /\ UNCHANGED mainVars

\* solClient_flow_sendAck ( opaqueFlow_p, msgId );
Ctx_m100 ==
    /\ ctx = "m100"
    /\ pc # "done"
    /\ cbAcks' = Append(cbAcks, [flow |-> cbFlow, msgId |-> cbMsg.msgId,
                                 live |-> cbFlow \in liveFlows])
    /\ ctx' = "m103"
    /\ UNCHANGED <<msgCount, lastErrorInfo, cbEvent, cbFlow, cbMsg, nEvents,
                   flowErrorInfo, unread>>
    /\ UNCHANGED mainVars

\* return SOLCLIENT_CALLBACK_OK;
Ctx_m103 ==
    /\ ctx = "m103"
    /\ pc # "done"
    /\ ctx' = "idle"
    /\ cbFlow' = NULL
    /\ cbMsg' = NoMsg
    /\ cbAcks' = <<>>
    /\ UNCHANGED <<msgCount, lastErrorInfo, cbEvent, nEvents, flowErrorInfo, unread>>
    /\ UNCHANGED mainVars

MainStep ==
    \/ Main_l272 \/ Main_l276 \/ Main_l290 \/ Main_l291 \/ Main_l292
    \/ Main_l294 \/ Main_l295 \/ Main_l296 \/ Main_l302 \/ Main_l303 \/ Main_l306
    \/ Main_l320 \/ Main_l324 \/ Main_l325 \/ Main_l326 \/ Main_l328
    \/ Main_l329 \/ Main_l330 \/ Main_l333 \/ Main_l342 \/ Main_l352 \/ Main_l355

CtxStep ==
    \/ DeliverFlowEvent \/ Ctx_e72 \/ Ctx_e73 \/ Ctx_e74
    \/ DeliverMessage \/ Ctx_m95 \/ Ctx_m98 \/ Ctx_m100 \/ Ctx_m103

Next == MainStep \/ CtxStep

Spec == Init /\ [][Next]_vars

(***************************************************************************)
(* Scheduling.  main() is a thread that is never blocked for good (SLEEP   *)
(* returns), and the context thread runs a callback it has entered to its  *)
(* return.  Nothing obliges the transport to deliver an event or a         *)
(* message.                                                                *)
(***************************************************************************)
CallbackStep ==
    \/ Ctx_e72 \/ Ctx_e73 \/ Ctx_e74
    \/ Ctx_m95 \/ Ctx_m98 \/ Ctx_m100 \/ Ctx_m103

FairSpec == Spec /\ WF_vars(MainStep) /\ WF_vars(CallbackStep)

(***************************************************************************)
(* The same program in a run with one flow event more: the event that      *)
(* starts a rebind, one that arrives during it, and one after that.        *)
(***************************************************************************)
DeliverFlowEventLong == DeliverFlowEventUpTo(MaxEvents + 1)

CtxStepLong ==
    \/ DeliverFlowEventLong \/ Ctx_e72 \/ Ctx_e73 \/ Ctx_e74
    \/ DeliverMessage \/ Ctx_m95 \/ Ctx_m98 \/ Ctx_m100 \/ Ctx_m103

NextLong == MainStep \/ CtxStepLong

SpecLong == Init /\ [][NextLong]_vars

(***************************************************************************)
(* Helpers of the properties.                                              *)
(***************************************************************************)
LogIdx == 1..Len(apiLog)

IsObserve(i, line) == apiLog[i].op = "observe" /\ apiLog[i].line = line
IsDestroy(i) == apiLog[i].op = "destroy"
IsCreate(i) == apiLog[i].op = "create"

\* the context thread is inside flowEventCallback
InEventCallback == ctx \in {"e72", "e73", "e74"}

\* the event is a down-with-error event carrying one of the two replay sub codes
IsReplayDown(e) ==
    /\ e.flowEvent = "SOLCLIENT_FLOW_EVENT_DOWN_ERROR"
    /\ e.subCode \in ReplaySubCodes

\* main() has taken a replay branch and has not finished resetting flowErrorInfo
InResetWindow == pc \in {"l294", "l295", "l296", "l324", "l325", "l326"}

(***************************************************************************)
(* C1.  No value the callback wrote to flowErrorInfo is replaced by a      *)
(* later callback write before the loop has read it: flowEventCallback     *)
(* never runs line 73 while a replay sub code it wrote earlier is still    *)
(* unread by the loop.                                                     *)
(***************************************************************************)
C1_NoOverwriteBeforeObserved ==
    [][(ctx = "e73" /\ ctx' = "e74") => ~unread]_vars

(***************************************************************************)
(* C2.  The loop's read-then-clear is atomic with respect to the callback: *)
(* between the test that chose a replay branch and the end of the reset of *)
(* responseCode, subCode and errorStr, flowErrorInfo changes only by the   *)
(* loop's own steps.                                                       *)
(***************************************************************************)
C2_ReadThenClearAtomic ==
    [][(InResetWindow /\ pc' = pc) => flowErrorInfo' = flowErrorInfo]_vars

(***************************************************************************)
(* C3.  Every replay-started condition the loop observes (line 292) is     *)
(* followed by exactly one destroy (line 302, of the handle held then) and *)
(* then exactly one create (line 303) with the replay start location that  *)
(* flowProps held when the condition was observed; nothing else is done to *)
(* the flow in that iteration.                                             *)
(***************************************************************************)
C3_ReplayStartedCycle ==
    \A i \in LogIdx :
        IsObserve(i, "l292") =>
            /\ Len(apiLog) = i => pc \in {"l294", "l295", "l296", "l302"}
            /\ Len(apiLog) = i + 1 => pc = "l303"
            /\ Len(apiLog) >= i + 1 =>
                 /\ IsDestroy(i + 1) /\ apiLog[i + 1].line = "l302"
                 /\ apiLog[i + 1].flow = apiLog[i].flow /\ apiLog[i].flow # NULL
            /\ Len(apiLog) >= i + 2 =>
                 /\ IsCreate(i + 2) /\ apiLog[i + 2].line = "l303"
                 /\ apiLog[i + 2].loc = apiLog[i].loc
                 /\ (Len(apiLog) = i + 2 /\ pc = "l306") => flowProps = apiLog[i].loc
            /\ Len(apiLog) >= i + 3 =>
                 apiLog[i + 3].op = "observe" \/ apiLog[i + 3].line = "l352"

\* a replay-started condition was observed with a date as replay start
\* location, and the flow was destroyed and bound again
C3_Witness ==
    \E i \in LogIdx :
        /\ IsObserve(i, "l292")
        /\ apiLog[i].loc = REPLAY_START_LOCATION_DATE
        /\ Len(apiLog) >= i + 2
        /\ apiLog[i + 2].rc = SOLCLIENT_OK
        /\ pc = "l342"

C5_OnlyMainRebinds ==
    [][(liveFlows' # liveFlows \/ flow_p' # flow_p \/ apiLog' # apiLog)
           => (pc' # pc /\ ctx' = ctx)]_vars

\* flowEventCallback is about to return while the flow it was called for is bound
C5_Witness ==
    /\ ctx = "e74"
    /\ cbFlow \in liveFlows
    /\ cbEvent.subCode = SOLCLIENT_SUBCODE_REPLAY_STARTED

(***************************************************************************)
(* C6.  At most one flow handle is live, and it is the one flow_p holds;   *)
(* createFlow is called only with no handle live; every destroy is of a    *)
(* live handle, so none is destroyed twice; and a handle created before    *)
(* another create was destroyed in between.                                *)
(***************************************************************************)
C6_OneLiveHandle ==
    /\ Cardinality(liveFlows) <= 1
    /\ liveFlows \subseteq {flow_p}
    /\ pc \in {"l272", "l303", "l330"} => liveFlows = {}
    /\ pc \in {"l302", "l329", "l352"} => flow_p \in liveFlows
    /\ \A i, j \in LogIdx :
         (i < j /\ IsDestroy(i) /\ IsDestroy(j)) =>
             (apiLog[i].flow # apiLog[j].flow /\ apiLog[i].flow # NULL /\ apiLog[j].flow # NULL)
    /\ \A i, j \in LogIdx :
         (i < j /\ IsCreate(i) /\ IsCreate(j) /\ apiLog[i].rc = SOLCLIENT_OK) =>
             \E k \in (i + 1)..(j - 1) : IsDestroy(k) /\ apiLog[k].flow = apiLog[i].flow

\* two handles were created one after the other and the second one is live
C6_Witness ==
    /\ nextFlow = 3
    /\ liveFlows = {2}
    /\ pc = "l342"

(***************************************************************************)
(* C7.  A flow event that is not a down-with-error event carrying a replay *)
(* sub code leaves flowErrorInfo's responseCode and subCode unchanged: no  *)
(* step of flowEventCallback for such an event changes either.             *)
(***************************************************************************)
C7_OtherEventsLeaveErrorState ==
    [][(InEventCallback /\ ctx' # ctx /\ ~IsReplayDown(cbEvent))
           => /\ flowErrorInfo'.responseCode = flowErrorInfo.responseCode
              /\ flowErrorInfo'.subCode = flowErrorInfo.subCode]_vars

(***************************************************************************)
(* C8.  flowEventCallback changes flowErrorInfo only: no step of it        *)
(* changes the transport's last-error record, the flow handle, the replay  *)
(* start location or msgCount.                                             *)
(***************************************************************************)
C8_CallbackWritesErrorStateOnly ==
    [][(InEventCallback /\ ctx' # ctx)
           => /\ lastErrorInfo' = lastErrorInfo
              /\ flow_p' = flow_p /\ liveFlows' = liveFlows
              /\ flowProps' = flowProps
              /\ msgCount' = msgCount]_vars

(***************************************************************************)
(* C9.  Whenever main() has returned after the first bind attempt, the     *)
(* last flow call it made was a destroy and no flow handle is live.        *)
(***************************************************************************)
C9_FinalDestroyOnExit ==
    pc = "done" =>
        /\ Len(apiLog) > 0
        /\ IsDestroy(Len(apiLog))
        /\ liveFlows = {}

(***************************************************************************)
(* C10.  A failed createFlow is terminal: while rc holds the failure, the  *)
(* failed create is the last flow call and loop decision made, main() is   *)
(* at the check of rc or has returned, it returned -1, and no handle is    *)
(* live; after a failed first bind the loop was never entered.             *)
(***************************************************************************)
C10_BindFailureTerminal ==
    rc = SOLCLIENT_FAIL =>
        /\ Len(apiLog) > 0
        /\ IsCreate(Len(apiLog)) /\ apiLog[Len(apiLog)].rc = SOLCLIENT_FAIL
        /\ pc \in {"l276", "l306", "l333", "done"}
        /\ (Len(apiLog) = 1 => pc \in {"l276", "done"})
        /\ (pc = "done" => exitCode = -1)
        /\ liveFlows = {}
        /\ (Len(apiLog) > 1 => flow_p = NULL)

\* a rebind failed and main() has returned
C10_Witness ==
    /\ rc = SOLCLIENT_FAIL
    /\ pc = "done"
    /\ Len(apiLog) > 1

(***************************************************************************)
(* C11.  An iteration that found a sub code set at line 291, whatever the  *)
(* sub code, resets flowErrorInfo: when such an iteration reaches SLEEP    *)
(* without having taken a replay branch, the record holds no error.        *)
(***************************************************************************)
C11_ResetWheneverSet ==
    [][(pc = "l320" /\ pc' = "l342")
           => /\ flowErrorInfo'.subCode = SOLCLIENT_SUBCODE_OK
              /\ flowErrorInfo'.responseCode = 0]_vars

(***************************************************************************)
(* C12.  Every call of flowMessageReceiveCallback adds exactly one to      *)
(* msgCount, redelivered message or not, message id extracted or not, and  *)
(* nothing else changes msgCount: the callback starts at line 95 and runs  *)
(* it once, the step of line 95 adds one, and no other step of either      *)
(* thread (a rebind included) changes msgCount.                            *)
(***************************************************************************)
C12_CountsEveryMessageOnce ==
    [][/\ (ctx = "m95" /\ ctx' # ctx) => (ctx' = "m98" /\ msgCount' = msgCount + 1)
       /\ ~(ctx = "m95" /\ ctx' # ctx) => msgCount' = msgCount
       /\ (ctx' = "m95" /\ ctx # "m95") => ctx = "idle"
       /\ (ctx = "idle" /\ ctx' \notin {"idle", "e72"}) => ctx' = "m95"
       /\ (ctx \in {"m98", "m100", "m103"} /\ ctx' # ctx) => ctx' \in {"m100", "m103", "idle"}]_vars

\* a redelivered message whose id cannot be extracted has been counted, on
\* the second flow of the run
C12_Witness ==
    /\ ctx = "m98"
    /\ cbMsg.redelivered /\ ~cbMsg.idOk
    /\ cbFlow = 2
    /\ msgCount >= 2

(***************************************************************************)
(* C13.  An acknowledgment is sent for a delivered message if and only if  *)
(* its message id was extracted, and then exactly one, carrying that id:   *)
(* none is sent before line 100, and when the callback returns it has sent *)
(* the one acknowledgment of its message's id, or none if the extraction   *)
(* failed.                                                                 *)
(***************************************************************************)
C13_AckIffMsgId ==
    /\ ctx \in {"m95", "m98", "m100"} => cbAcks = <<>>
    /\ ctx = "m103" =>
         IF cbMsg.idOk
         THEN /\ Len(cbAcks) = 1
              /\ cbAcks[1].msgId = cbMsg.msgId
              /\ cbAcks[1].flow = cbFlow
         ELSE cbAcks = <<>>

\* the callback is about to return having acknowledged message id 2
C13_Witness ==
    /\ ctx = "m103"
    /\ cbMsg.idOk
    /\ cbAcks # <<>>
    /\ cbAcks[1].msgId = 2

(***************************************************************************)
(* C15.  When flowEventCallback returns from a down-with-error event,      *)
(* flowErrorInfo holds the event's response code, sub code and reason      *)
(* text, as the transport's last-error record gave them at the call.       *)
(***************************************************************************)
C15_CallbackSavesErrorInfo ==
    [][(ctx = "e74" /\ ctx' = "idle"
            /\ cbEvent.flowEvent = "SOLCLIENT_FLOW_EVENT_DOWN_ERROR")
           => flowErrorInfo' = ErrorInfo(cbEvent.subCode,
                                         ResponseCodeOf(cbEvent.subCode),
                                         ReasonText(cbEvent.subCode))]_vars

(***************************************************************************)
(* C18.  Every acknowledgment is sent over a flow handle that is live at   *)
(* the moment it is sent: flowMessageReceiveCallback never acknowledges    *)
(* over a handle that main() has already destroyed.                        *)
(***************************************************************************)
C18_AckOverLiveHandle ==
    \A i \in 1..Len(cbAcks) : cbAcks[i].live

(***************************************************************************)
(* C19.  The number of createFlow calls is one plus the number of          *)
(* iterations that found a replay sub code (less the one whose create is   *)
(* still to come); once the loop has seen msgCount at 10 or more, a replay *)
(* sub code still pending triggers nothing: the only flow call made after  *)
(* that is the one destroy of the cleanup.                                 *)
(***************************************************************************)
CountOp(op) == Cardinality({i \in LogIdx : apiLog[i].op = op})

\* main() is in a replay branch, before its createFlow has been called
BeforeRebindCreate ==
    pc \in {"l294", "l295", "l296", "l302", "l303",
            "l324", "l325", "l326", "l328", "l329", "l330"}

\* main() has returned 0 (line 360)
ReturnedZero == pc = "done" /\ exitCode = 0

C19_BindCount ==
    /\ CountOp("create") = (IF pc = "l272" THEN 0 ELSE 1) + CountOp("observe")
                               - (IF BeforeRebindCreate THEN 1 ELSE 0)
    /\ pc = "l352" =>
         /\ IsCreate(Len(apiLog))
         /\ apiLog[Len(apiLog)].rc = SOLCLIENT_OK
    /\ (pc = "l355" \/ ReturnedZero) =>
         /\ IsDestroy(Len(apiLog)) /\ apiLog[Len(apiLog)].line = "l352"
         /\ IsCreate(Len(apiLog) - 1)
         /\ CountOp("destroy") = CountOp("create")

\* main() returned 0 after one rebind, leaving a replay sub code unhandled
C19_Witness ==
    /\ ReturnedZero
    /\ flowErrorInfo.subCode \in ReplaySubCodes
    /\ CountOp("observe") = 1
    /\ CountOp("create") = 2

(***************************************************************************)
(* C16.  A replay sub code that flowEventCallback wrote after the reset of *)
(* lines 294-296 (324-326) and that the loop has not read is still in      *)
(* flowErrorInfo when the destroy and create of lines 302-303 (329-330)    *)
(* return: no step taken while main() is at one of these calls replaces    *)
(* it by a sub code that starts no rebind.                                 *)
(***************************************************************************)
InRebind == pc \in {"l302", "l303", "l329", "l330"}

C16_RebindWriteKept ==
    [][(InRebind /\ unread /\ flowErrorInfo.subCode \in ReplaySubCodes)
           => flowErrorInfo'.subCode \in ReplaySubCodes]_vars

(***************************************************************************)
(* C14.  Once msgCount has reached 10, main() leaves the loop, destroys    *)
(* the flow at line 352 and returns 0, unless a createFlow failed.  It is  *)
(* past the loop only with msgCount at 10 or more, it returns 0 only after *)
(* the destroy of line 352 with no flow left bound, and in a run without   *)
(* flow event createFlow has been called exactly once.                     *)
(***************************************************************************)
C14_ExitsOnlyAtThreshold ==
    /\ (pc \in {"l352", "l355"} \/ ReturnedZero) => msgCount >= MsgThreshold
    /\ ReturnedZero =>
         /\ IsDestroy(Len(apiLog)) /\ apiLog[Len(apiLog)].line = "l352"
         /\ liveFlows = {}
    /\ (nEvents = 0 /\ pc # "l272") => CountOp("create") = 1

C14_NormalTermination ==
    /\ []C14_ExitsOnlyAtThreshold
    /\ (msgCount >= MsgThreshold) ~> (ReturnedZero \/ rc = SOLCLIENT_FAIL)

\* main() returned 0 after ten messages, one bind and no flow event
C14_Witness ==
    /\ ReturnedZero
    /\ msgCount = MsgThreshold
    /\ nEvents = 0
    /\ CountOp("create") = 1
    /\ CountOp("destroy") = 1

(***************************************************************************)
(* C17.  Whenever flowErrorInfo holds a replay sub code that the callback  *)
(* wrote and the loop has not acted on, and no flowEventCallback is        *)
(* running, the loop later takes a replay branch (one more observation at  *)
(* line 292 or 320, followed by its destroy and create), unless msgCount   *)
(* reaches 10, a further flow event is delivered, or main() has returned.  *)
(***************************************************************************)
C17_PendingReplayHandled ==
    \A k \in 0..MaxEvents, n \in 1..MaxEvents :
        (/\ unread
         /\ ~InEventCallback
         /\ flowErrorInfo.subCode \in ReplaySubCodes
         /\ CountOp("observe") = k
         /\ nEvents = n)
          ~> \/ CountOp("observe") > k
             \/ msgCount >= MsgThreshold
             \/ nEvents > n
             \/ pc = "done"

====
